---- MODULE Spec2Model ----
(***************************************************************************)
(* cloudnet-monitor backend: the SNMP poller (SNMPService), the buffered   *)
(* ingestion layer (MetricsService) and the real-time fan-out              *)
(* (WebSocketService), as state machines over the Node.js event loop.      *)
(* Every action is one run-to-completion turn of the event loop: a public  *)
(* method call, a timer callback, or the continuation of an awaited I/O    *)
(* operation.                                                              *)
(***************************************************************************)
EXTENDS Integers, Sequences, FiniteSets, TLC

\* ---------------------------------------------------------------- bounds
\* Records that may be created in one behaviour.
MaxRecs == 4
\* Largest array one storeMetrics call is given.
MaxBatch == 2
\* Records that the poll cycles of one behaviour may create, and the most
\* that one step of a cycle returns.
MaxPollRecs == 1
MaxStepRecs == 1
\* pollDevice activations in one behaviour.
MaxCycles == 2
\* Timers the event loop may hold at once for one device.
MaxHandles == 2
\* Flush threshold of the model; the program's default is 1000
\* (MetricsService.js:14), scaled down so that the boundary is reached.
bufferSize == 3
\* Records the time-series store may hold, and the latest timestamp.
MaxPoints == 2
MaxTime == 2
MaxSockets == 3
MaxTimeouts == 2

VARIABLES
  metricsBuffer,   \* MetricsService.metricsBuffer: sequence of records
  inflight,        \* batches swapped out by a flush whose write is pending
  store,           \* points written to the time-series store, in write order
  influxClient,    \* TRUE iff this.influxClient is non-null
  isInitialized,   \* MetricsService.isInitialized
  flushTimer,      \* TRUE iff startBufferFlushing has armed its interval
  nextRec,         \* identity of the next record object created
  failedOnce,      \* ids of records that were in a batch whose write failed
  devices,         \* SNMPService.devices: device id -> device object
  sessions,        \* SNMPService.sessions: the ids that have a session
  pollingIntervals,\* SNMPService.pollingIntervals: device id -> timer handle
  timers,          \* the event loop's active setInterval timers of the poller
  polls,           \* pollDevice activations awaiting an SNMP response
  nextCycle,       \* number of the next pollDevice activation
  clients,         \* WebSocketService.clients: client id -> clientInfo
  rooms,           \* WebSocketService.rooms: room name -> set of client ids
  wssOpen,         \* the WebSocket server accepts connections and broadcasts
  sent,            \* <<client id, message type>> pairs the last handler sent
  flushed,         \* metric records whose writePoints call resolved
  lastQuery,       \* the last query call: its arguments, the branch of
                   \* queryMetrics it took, and the value it returned
  appPhase,        \* NetworkMonitoringApp: constructed, running, closing, exited
  appPool,         \* pgPool of the application's MetricsService
  pgPool,          \* pgPool of the MetricsService the device routes use
  deviceRows,      \* the devices table: device id -> row
  response,        \* what the last device-route request answered
  sockets,         \* browser: the WebSocket objects not yet closed
  newestSocket,    \* browser: the WebSocket object created last (0: none yet)
  wsRef,           \* WebSocketProvider wsRef.current (0 is null)
  isConnected,     \* WebSocketProvider state.isConnected
  isConnectingRef, \* WebSocketProvider isConnectingRef.current
  reconnectAttemptsRef, \* WebSocketProvider reconnectAttemptsRef.current
  reconnectTimeoutRef,  \* WebSocketProvider reconnectTimeoutRef.current (0 is null)
  pendingTimeouts  \* browser: the setTimeout handles that have not fired

bufferVars == <<metricsBuffer, inflight, store, influxClient, isInitialized,
                flushTimer, nextRec, failedOnce>>

pollerVars == <<devices, sessions, pollingIntervals, timers, polls,
                nextCycle>>

wsVars == <<clients, rooms, wssOpen, sent>>

queryVars == <<flushed, lastQuery>>

appVars == <<appPhase, appPool>>

routeVars == <<pgPool, deviceRows, response>>

clientVars == <<sockets, newestSocket, wsRef, isConnected, isConnectingRef,
                reconnectAttemptsRef, reconnectTimeoutRef, pendingTimeouts>>

otherVars == <<appVars, routeVars, clientVars>>

vars == <<metricsBuffer, inflight, store, influxClient, isInitialized,
          flushTimer, nextRec, failedOnce, devices, sessions,
          pollingIntervals, timers, polls, nextCycle, clients, rooms,
          wssOpen, sent, flushed, lastQuery, appPhase, appPool, pgPool,
          deviceRows, response, sockets, newestSocket, wsRef, isConnected,
          isConnectingRef, reconnectAttemptsRef, reconnectTimeoutRef,
          pendingTimeouts>>

\* ------------------------------------------------------------- helpers
Range(s) == {s[i] : i \in 1..Len(s)}

Ids(s) == {s[i].id : i \in 1..Len(s)}

\* k fresh metric records of one poll step (SNMPService.js:273-279)
NewRecords(d, cyc, metric, k) ==
  [i \in 1..k |-> [id |-> nextRec + i - 1, deviceId |-> d,
                   cycle |-> cyc, metric |-> metric]]

\* ------------------------------------------------- MetricsService buffer
\* storeMetrics: `this.metricsBuffer.length >= this.bufferSize`
ThresholdReachedStrict(len) == len > bufferSize

ThresholdReached(len) == len >= bufferSize

\* flushMetricsBuffer: early return when there is nothing to flush or no client
FlushReturnsEarly(buf) == Len(buf) = 0 \/ ~influxClient

\* flushMetricsBuffer: `this.metricsBuffer = []` after the copy
BufferAfterSwapKept(buf) == buf

BufferAfterSwap(buf) == <<>>

\* flushMetricsBuffer catch: `this.metricsBuffer.unshift(...metricsToFlush)`
RequeueDropped(buf, batch) == buf

Requeue(buf, batch) == batch \o buf

\* The synchronous part of flushMetricsBuffer applied to buffer `buf`:
\* the new buffer and the new set of pending batches.
FlushSync(buf) ==
  IF FlushReturnsEarly(buf)
  THEN [buffer |-> buf, pending |-> inflight]
  ELSE [buffer |-> BufferAfterSwap(buf), pending |-> inflight \cup {buf}]

\* storeMetrics applied to the array `ms`: push, then flush at the threshold.
StoreSync(ms) ==
  LET appended == metricsBuffer \o ms IN
  IF ThresholdReached(Len(appended))
  THEN FlushSync(appended)
  ELSE [buffer |-> appended, pending |-> inflight]

\* MetricsService.initialize (PostgreSQL, then InfluxDB, then the flush timer)
\* on the MetricsService of the poller
InitializeBody(outcome) ==
  /\ ~isInitialized
  /\ IF outcome = "pgFail"
     THEN UNCHANGED <<influxClient, isInitialized, flushTimer>>
     ELSE /\ influxClient' = (outcome = "ok")
          /\ flushTimer' = TRUE
          /\ isInitialized' = TRUE
  /\ UNCHANGED <<metricsBuffer, inflight, store, nextRec, failedOnce>>

Initialize(outcome) ==
  /\ InitializeBody(outcome)
  /\ UNCHANGED pollerVars
  /\ UNCHANGED <<wsVars, queryVars, otherVars>>

\* storeMetrics(metrics) called with an array of k fresh records of device d
StoreMetrics(d, k) ==
  /\ nextRec + k - 1 <= MaxRecs
  /\ LET ms == NewRecords(d, 0, "cpu_utilization", k)
         r  == StoreSync(ms)
     IN /\ metricsBuffer' = r.buffer
        /\ inflight' = r.pending
  /\ nextRec' = nextRec + k
  /\ UNCHANGED <<store, influxClient, isInitialized, flushTimer, failedOnce>>
  /\ UNCHANGED pollerVars
  /\ UNCHANGED <<wsVars, queryVars, otherVars>>

\* The setInterval callback of startBufferFlushing
FlushTick ==
  /\ flushTimer
  /\ Len(metricsBuffer) > 0
  /\ LET r == FlushSync(metricsBuffer)
     IN /\ metricsBuffer' = r.buffer
        /\ inflight' = r.pending
  /\ UNCHANGED <<store, influxClient, isInitialized, flushTimer, nextRec,
                 failedOnce>>
  /\ UNCHANGED pollerVars
  /\ UNCHANGED <<wsVars, queryVars, otherVars>>

\* The awaited write of a pending batch resolves
FlushWritten(batch) ==
  /\ batch \in inflight
  /\ inflight' = inflight \ {batch}
  /\ store' = store \o batch
  /\ UNCHANGED <<metricsBuffer, influxClient, isInitialized, flushTimer,
                 nextRec, failedOnce>>
  /\ UNCHANGED pollerVars
  /\ UNCHANGED <<wsVars, queryVars, otherVars>>

\* The awaited write of a pending batch rejects: the catch block re-queues it
FlushFailed(batch) ==
  /\ batch \in inflight
  /\ inflight' = inflight \ {batch}
  /\ metricsBuffer' = Requeue(metricsBuffer, batch)
  /\ failedOnce' = failedOnce \cup Ids(batch)
  /\ UNCHANGED <<store, influxClient, isInitialized, flushTimer, nextRec>>
  /\ UNCHANGED pollerVars
  /\ UNCHANGED <<wsVars, queryVars, otherVars>>

\* ------------------------------------------------------------ SNMPService
DeviceIds == {"rtr-1", "sw-1"}

\* addDevice: `pollInterval = 60000` when the descriptor gives none
DefaultPollInterval == 60000

\* pollInterval values a descriptor may carry (0 stands for "not given")
PollIntervals == {0, 1000}

Put(f, k, v) == [x \in DOMAIN f \cup {k} |-> IF x = k THEN v ELSE f[x]]

Drop(f, k) == [x \in DOMAIN f \ {k} |-> f[x]]

FcnRange(f) == {f[x] : x \in DOMAIN f}

EmptyMap == [x \in {} |-> 0]

\* The poller's registries and pending polls as one value, so that methods
\* compose.  A pending poll holds the device object and the session it read
\* from the maps when it began: `attached` says that this device object is
\* still the one in `devices`, `open` that this session has not been closed.
Poller == [devices |-> devices, sessions |-> sessions,
           pollingIntervals |-> pollingIntervals, timers |-> timers,
           polls |-> polls]

\* Timer handles are opaque; the n-th live timer made for device id is <<id, n>>
Handles(id) == {<<id, n>> : n \in 1..MaxHandles}

FreeHandles(P, id) == Handles(id) \ DOMAIN P.timers

FreshHandle(P, id) ==
  CHOOSE h \in FreeHandles(P, id) : \A g \in FreeHandles(P, id) : h[2] <= g[2]

\* stopPolling(deviceId): clearInterval and forget the handle
StopPollingSkipped(P, id) == P

StopPolling(P, id) ==
  IF id \in DOMAIN P.pollingIntervals
  THEN [P EXCEPT !.timers = Drop(@, P.pollingIntervals[id]),
                 !.pollingIntervals = Drop(@, id)]
  ELSE P

\* startPolling(deviceId) for a device that exists: stopPolling, setInterval
\* at device.pollInterval, remember the handle
StartPollingNoClear(P, id) ==
  LET h == FreshHandle(P, id)
  IN [P EXCEPT !.timers = Put(@, h, P.devices[id].pollInterval),
               !.pollingIntervals = Put(@, id, h)]

StartPolling(P, id) ==
  LET Q == StopPolling(P, id)
      h == FreshHandle(Q, id)
  IN [Q EXCEPT !.timers = Put(@, h, Q.devices[id].pollInterval),
               !.pollingIntervals = Put(@, id, h)]

\* addDevice: `if (this.devices.has(id)) throw`
DeviceExistsIgnored(P, id) == FALSE

DeviceExists(P, id) == id \in DOMAIN P.devices

\* removeDevice / close: `session.close()` on the session of device id; the
\* pending polls that hold this session hold a closed session from now on
SessionLeftOpen(P, id) == P.polls

SessionClosed(P, id) ==
  {IF p.id = id /\ p.attached THEN [p EXCEPT !.open = FALSE] ELSE p :
     p \in P.polls}

\* `this.devices.delete(id)` / `this.devices.set(id, device)`: the pending
\* polls of id keep the device object they began with
Detached(ps, id) ==
  {IF p.id = id THEN [p EXCEPT !.attached = FALSE] ELSE p : p \in ps}

\* addDevice past the duplicate check: the device object, its session, its timer
AddDeviceBody(P, id, interval) ==
  LET dev == [status |-> "unknown", lastPoll |-> 0, lastError |-> "none",
              pollInterval |-> IF interval = 0 THEN DefaultPollInterval
                               ELSE interval]
      Q == [P EXCEPT !.devices = Put(@, id, dev),
                     !.sessions = @ \cup {id},
                     !.polls = Detached(@, id)]
  IN StartPolling(Q, id)

\* removeDevice past the not-found check
RemoveDeviceBody(P, id) ==
  LET Q == StopPolling(P, id)
      R == IF id \in Q.sessions
           THEN [Q EXCEPT !.polls = SessionClosed(Q, id),
                          !.sessions = @ \ {id}]
           ELSE Q
  IN [R EXCEPT !.devices = Drop(@, id), !.polls = Detached(@, id)]

\* close(): clear every timer in pollingIntervals, close and forget every session
CloseBody(P) ==
  [P EXCEPT !.timers = [h \in DOMAIN @ \ FcnRange(P.pollingIntervals) |-> @[h]],
            !.pollingIntervals = EmptyMap,
            !.polls = {IF p.id \in P.sessions /\ p.attached
                       THEN [p EXCEPT !.open = FALSE] ELSE p : p \in @},
            !.sessions = {}]

\* Install P as the next state of the poller
SetPoller(P) ==
  /\ devices' = P.devices
  /\ sessions' = P.sessions
  /\ pollingIntervals' = P.pollingIntervals
  /\ timers' = P.timers
  /\ polls' = P.polls

UnchangedBufferState ==
  UNCHANGED <<metricsBuffer, inflight, store, influxClient, isInitialized,
              flushTimer, nextRec, failedOnce>>

\* addDevice: the duplicate check
AddDeviceResult(id) ==
  IF DeviceExists(Poller, id) THEN "alreadyExists" ELSE "ok"

\* addDevice(deviceConfig)
AddDevice(id, interval) ==
  /\ IF AddDeviceResult(id) = "ok"
     THEN /\ FreeHandles(StopPolling(Poller, id), id) # {}
          /\ SetPoller(AddDeviceBody(Poller, id, interval))
          /\ UNCHANGED nextCycle
     ELSE UNCHANGED pollerVars
  /\ UnchangedBufferState
  /\ UNCHANGED <<wsVars, queryVars, otherVars>>

\* removeDevice / startPolling: `throw new Error('Device ... not found')`
LookupResult(id) == IF id \in DOMAIN devices THEN "ok" ELSE "notFound"

\* removeDevice(deviceId)
RemoveDevice(id) ==
  /\ IF LookupResult(id) = "ok"
     THEN /\ SetPoller(RemoveDeviceBody(Poller, id))
          /\ UNCHANGED nextCycle
     ELSE UNCHANGED pollerVars
  /\ UnchangedBufferState
  /\ UNCHANGED <<wsVars, queryVars, otherVars>>

\* PUT /:id with changed connection details: removeDevice, then addDevice
\* with no pollInterval in the descriptor
UpdateDevice(id) ==
  /\ IF LookupResult(id) = "ok"
     THEN LET P == RemoveDeviceBody(Poller, id) IN
          /\ FreeHandles(P, id) # {}
          /\ SetPoller(AddDeviceBody(P, id, 0))
          /\ UNCHANGED nextCycle
     ELSE UNCHANGED pollerVars
  /\ UnchangedBufferState
  /\ UNCHANGED <<wsVars, queryVars, otherVars>>

\* startPolling(deviceId) called on its own
StartPollingCall(id) ==
  /\ IF LookupResult(id) = "ok"
     THEN /\ FreeHandles(StopPolling(Poller, id), id) # {}
          /\ SetPoller(StartPolling(Poller, id))
          /\ UNCHANGED nextCycle
     ELSE UNCHANGED pollerVars
  /\ UnchangedBufferState
  /\ UNCHANGED <<wsVars, queryVars, otherVars>>

\* stopPolling(deviceId) called on its own
StopPollingCall(id) ==
  /\ SetPoller(StopPolling(Poller, id))
  /\ UNCHANGED nextCycle
  /\ UnchangedBufferState
  /\ UNCHANGED <<wsVars, queryVars, otherVars>>

\* SNMPService.close()
Close ==
  /\ SetPoller(CloseBody(Poller))
  /\ UNCHANGED nextCycle
  /\ UnchangedBufferState
  /\ UNCHANGED <<wsVars, queryVars, otherVars>>

\* pollDevice: `if (!device || !session) throw`
Pollable(id) == id \in DOMAIN devices /\ id \in sessions

\* A pollDevice activation up to its first await (the system get is sent)
NewPoll(id, cyc) ==
  [cycle |-> cyc, id |-> id, pc |-> "sys", attached |-> TRUE, open |-> TRUE]

\* pollDevice(id): throws, or starts a cycle
PollDeviceCall(id) ==
  /\ IF Pollable(id)
     THEN /\ nextCycle <= MaxCycles
          /\ polls' = polls \cup {NewPoll(id, nextCycle)}
          /\ nextCycle' = nextCycle + 1
     ELSE UNCHANGED <<polls, nextCycle>>
  /\ UNCHANGED <<devices, sessions, pollingIntervals, timers>>
  /\ UnchangedBufferState
  /\ UNCHANGED <<wsVars, queryVars, otherVars>>

\* The setInterval callback armed by startPolling
TimerPoll(h) ==
  /\ h \in DOMAIN timers
  /\ PollDeviceCall(h[1])

\* POST /:id/test: one pollDevice outside the schedule
TestPoll(id) == PollDeviceCall(id)

DeviceOrder == <<"rtr-1", "sw-1">>

Rank(d) == CHOOSE i \in 1..Len(DeviceOrder) : DeviceOrder[i] = d

\* pollAllDevices(): pollDevice for every key of devices, each with its catch
PollAllDevices ==
  LET S == {d \in DOMAIN devices : Pollable(d)}
      Cyc(d) == nextCycle + Cardinality({e \in S : Rank(e) < Rank(d)})
  IN /\ nextCycle + Cardinality(S) - 1 <= MaxCycles
     /\ polls' = polls \cup {NewPoll(d, Cyc(d)) : d \in S}
     /\ nextCycle' = nextCycle + Cardinality(S)
     /\ UNCHANGED <<devices, sessions, pollingIntervals, timers>>
     /\ UnchangedBufferState
     /\ UNCHANGED <<wsVars, queryVars, otherVars>>

\* ---------------------------------------------------------- poll cycle
\* A request on a session completes with data only while the session is
\* open: session.close() cancels the outstanding requests of that session,
\* each callback getting an error.
ErrorOf(p) == IF p.open THEN "timeout" ELSE "closed"

\* pollDevice catch: `device.status = 'down'; device.lastError = error.message`
\* on the device object the cycle began with
MarkDownAll(devs, p, err) ==
  [x \in DOMAIN devs |-> [devs[x] EXCEPT !.status = "down", !.lastError = err]]

MarkDownSkipped(devs, p, err) == devs

MarkDown(devs, p, err) ==
  IF p.attached
  THEN [devs EXCEPT ![p.id].status = "down", ![p.id].lastError = err]
  ELSE devs

\* pollDevice success: `device.lastPoll = new Date(); device.status = 'up'`
MarkUpById(devs, p) ==
  IF p.id \in DOMAIN devs
  THEN [devs EXCEPT ![p.id].lastPoll = p.cycle, ![p.id].status = "up"]
  ELSE devs

MarkUp(devs, p) ==
  IF p.attached
  THEN [devs EXCEPT ![p.id].lastPoll = p.cycle, ![p.id].status = "up"]
  ELSE devs

SetBuffer(r) ==
  /\ metricsBuffer' = r.buffer
  /\ inflight' = r.pending
  /\ UNCHANGED <<store, influxClient, isInitialized, flushTimer, failedOnce>>

\* A step of cycle p resolves with k records, which it stores; the cycle
\* goes on to step `next`
StepOk(p, step, metric, k, next) ==
  /\ p \in polls
  /\ p.pc = step
  /\ p.open
  /\ nextRec + k - 1 <= MaxPollRecs
  /\ SetBuffer(StoreSync(NewRecords(p.id, p.cycle, metric, k)))
  /\ nextRec' = nextRec + k
  /\ polls' = (polls \ {p}) \cup {[p EXCEPT !.pc = next]}
  /\ UNCHANGED <<devices, sessions, pollingIntervals, timers, nextCycle>>
  /\ UNCHANGED <<wsVars, queryVars, otherVars>>

\* A step of cycle p rejects: pollDevice's catch marks the device down
StepFailed(p, step) ==
  /\ p \in polls
  /\ p.pc = step
  /\ devices' = MarkDown(devices, p, ErrorOf(p))
  /\ polls' = polls \ {p}
  /\ UNCHANGED <<sessions, pollingIntervals, timers, nextCycle>>
  /\ UnchangedBufferState
  /\ UNCHANGED <<wsVars, queryVars, otherVars>>

\* pollSystemInfo's get callback
SysOk(p, k) == StepOk(p, "sys", "system_uptime", k, "if")

SysFailed(p) == StepFailed(p, "sys")

\* pollInterfaceStats: the ifNumber get and the eight table walks
IfOk(p, k) == StepOk(p, "if", "interface_in_octets", k, "res")

IfFailed(p) == StepFailed(p, "if")

\* pollResourceUtilization returns k records (stored when k > 0), then
\* pollDevice marks the device up
ResOk(p, k) ==
  /\ p \in polls
  /\ p.pc = "res"
  /\ p.open
  /\ nextRec + k - 1 <= MaxPollRecs
  /\ IF k > 0
     THEN SetBuffer(StoreSync(NewRecords(p.id, p.cycle, "cpu_utilization", k)))
     ELSE UNCHANGED <<metricsBuffer, inflight, store, influxClient,
                      isInitialized, flushTimer, failedOnce>>
  /\ nextRec' = nextRec + k
  /\ devices' = MarkUp(devices, p)
  /\ polls' = polls \ {p}
  /\ UNCHANGED <<sessions, pollingIntervals, timers, nextCycle>>
  /\ UNCHANGED <<wsVars, queryVars, otherVars>>

\* pollResourceUtilization catches its own error; pollDevice marks the
\* device up all the same
ResFailed(p) ==
  /\ p \in polls
  /\ p.pc = "res"
  /\ devices' = MarkUp(devices, p)
  /\ polls' = polls \ {p}
  /\ UNCHANGED <<sessions, pollingIntervals, timers, nextCycle>>
  /\ UnchangedBufferState
  /\ UNCHANGED <<wsVars, queryVars, otherVars>>

\* ------------------------------------------------------- WebSocketService
ClientIds == {"c1", "c2"}

\* The rooms broadcastMetricsUpdate serves
Channels == {"devices", "alerts", "system"}

\* A `channels` field that is not an array
NotArray == {"not an array"}

\* message.channels of a subscribe or unsubscribe message
ChannelInputs == SUBSET Channels \cup {NotArray}

\* message.token of an auth message: absent, or a string (whatever it holds)
Tokens == {"", "valid", "invalid"}

\* room name -> the message type broadcastMetricsUpdate sends to it
BroadcastType(room) ==
  CASE room = "devices" -> "metrics_update"
    [] room = "alerts" -> "alerts_update"
    [] room = "system" -> "system_status"

Broadcasts == {BroadcastType(r) : r \in Channels}

\* sendToClient: delivered only to a known client whose socket is OPEN
SendToClientAll(cl, c, type) ==
  {<<x, type>> : x \in {y \in DOMAIN cl : cl[y].ready = "OPEN"}}

SendToClient(cl, c, type) ==
  IF c \in DOMAIN cl /\ cl[c].ready = "OPEN" THEN {<<c, type>>} ELSE {}

\* addToRoom for every channel of chs
AddToRooms(rm, chs, c) ==
  [r \in DOMAIN rm \cup chs |->
     (IF r \in DOMAIN rm THEN rm[r] ELSE {}) \cup (IF r \in chs THEN {c} ELSE {})]

\* removeFromRoom for every channel of chs: a room left empty is deleted
RemoveFromRoomsKept(rm, chs, c) ==
  [r \in DOMAIN rm |-> IF r \in chs THEN rm[r] \ {c} ELSE rm[r]]

RemoveFromRooms(rm, chs, c) ==
  LET upd == [r \in DOMAIN rm |-> IF r \in chs THEN rm[r] \ {c} ELSE rm[r]]
  IN [r \in {x \in DOMAIN rm : x \notin chs \/ upd[x] # {}} |-> upd[r]]

UnchangedBackend ==
  UNCHANGED <<metricsBuffer, inflight, store, influxClient, isInitialized,
              flushTimer, nextRec, failedOnce, devices, sessions,
              pollingIntervals, timers, polls, nextCycle, flushed,
              lastQuery, otherVars>>

\* wss.on('connection'): a new clientInfo and the welcome message
Connect(c) ==
  /\ wssOpen
  /\ c \notin DOMAIN clients
  /\ clients' = Put(clients, c, [authenticated |-> FALSE,
                                 subscriptions |-> {}, ready |-> "OPEN",
                                 lastPong |-> FALSE, pinged |-> FALSE,
                                 answering |-> TRUE])
  /\ sent' = SendToClient(clients', c, "connection")
  /\ UNCHANGED <<rooms, wssOpen>>
  /\ UnchangedBackend

\* handleAuthentication: `if (message.token)`
TokenAccepted(token) == token # ""

HandleAuthentication(c, token) ==
  /\ c \in DOMAIN clients
  /\ IF TokenAccepted(token)
     THEN /\ clients' = [clients EXCEPT ![c].authenticated = TRUE]
          /\ sent' = SendToClient(clients, c, "auth_success")
     ELSE /\ sent' = SendToClient(clients, c, "auth_error")
          /\ UNCHANGED clients
  /\ UNCHANGED <<rooms, wssOpen>>
  /\ UnchangedBackend

\* handleSubscription: `if (!client.authenticated)` sends an error and returns
MaySubscribeAlways(c) == TRUE

MaySubscribeIfKnown(c) == c \in DOMAIN clients

MaySubscribe(c) == clients[c].authenticated

HandleSubscription(c, channels) ==
  /\ c \in DOMAIN clients
  /\ IF ~MaySubscribe(c)
     THEN /\ sent' = SendToClient(clients, c, "error")
          /\ UNCHANGED <<clients, rooms>>
     ELSE IF channels = NotArray
     THEN /\ sent' = {}
          /\ UNCHANGED <<clients, rooms>>
     ELSE /\ clients' = [clients EXCEPT ![c].subscriptions = @ \cup channels]
          /\ rooms' = AddToRooms(rooms, channels, c)
          /\ sent' = SendToClient(clients, c, "subscription_success")
  /\ UNCHANGED wssOpen
  /\ UnchangedBackend

\* handleUnsubscription (no authentication check)
HandleUnsubscription(c, channels) ==
  /\ c \in DOMAIN clients
  /\ IF channels = NotArray
     THEN /\ sent' = {}
          /\ UNCHANGED <<clients, rooms>>
     ELSE /\ clients' = [clients EXCEPT ![c].subscriptions = @ \ channels]
          /\ rooms' = RemoveFromRooms(rooms, channels, c)
          /\ sent' = SendToClient(clients, c, "unsubscription_success")
  /\ UNCHANGED wssOpen
  /\ UnchangedBackend

\* handleMessage case 'ping'
HandlePing(c) ==
  /\ c \in DOMAIN clients
  /\ sent' = SendToClient(clients, c, "pong")
  /\ UNCHANGED <<clients, rooms, wssOpen>>
  /\ UnchangedBackend

\* handleMetricsRequest
HandleMetricsRequest(c) ==
  /\ c \in DOMAIN clients
  /\ sent' = SendToClient(clients, c,
               IF clients[c].authenticated THEN "metrics_data" ELSE "error")
  /\ UNCHANGED <<clients, rooms, wssOpen>>
  /\ UnchangedBackend

\* handleMessage: JSON.parse throws, or the type is none of the known ones
HandleBadMessage(c) ==
  /\ c \in DOMAIN clients
  /\ sent' = SendToClient(clients, c, "error")
  /\ UNCHANGED <<clients, rooms, wssOpen>>
  /\ UnchangedBackend

\* The socket of c leaves the OPEN state (the peer or the network closes it)
TransportClose(c) ==
  /\ c \in DOMAIN clients
  /\ clients[c].ready = "OPEN"
  /\ clients' = [clients EXCEPT ![c].ready = "CLOSED"]
  /\ sent' = {}
  /\ UNCHANGED <<rooms, wssOpen>>
  /\ UnchangedBackend

\* handleDisconnection: removeFromRoom for every channel the client holds
LeaveRoomsSkipped(rm, subs, c) == rm

LeaveRooms(rm, subs, c) == RemoveFromRooms(rm, subs, c)

\* ws.on('close') -> handleDisconnection
HandleDisconnection(c) ==
  /\ c \in DOMAIN clients
  /\ clients[c].ready = "CLOSED"
  /\ rooms' = LeaveRooms(rooms, clients[c].subscriptions, c)
  /\ clients' = Drop(clients, c)
  /\ sent' = {}
  /\ UNCHANGED wssOpen
  /\ UnchangedBackend

\* The ping interval of a connection (30 s): `if (ws.readyState === OPEN)
\* ws.ping() else clearInterval(pingInterval)`. clientInfo has the fields
\* pinged (a ping is out, unanswered) and answering (the peer still answers
\* pings) for the two ends of the heartbeat.
PingTick(c) ==
  /\ c \in DOMAIN clients
  /\ IF clients[c].ready = "OPEN"
     THEN /\ clients' = [clients EXCEPT ![c].pinged = TRUE]
          /\ sent' = {<<c, "ping">>}
     ELSE /\ sent' = {}
          /\ UNCHANGED clients
  /\ UNCHANGED <<rooms, wssOpen>>
  /\ UnchangedBackend

\* ws.on('pong'): `clientInfo.lastPong = new Date()`
Pong(c) ==
  /\ c \in DOMAIN clients
  /\ clients[c].ready = "OPEN"
  /\ clients[c].pinged
  /\ clients[c].answering
  /\ clients' = [clients EXCEPT ![c].pinged = FALSE, ![c].lastPong = TRUE]
  /\ sent' = {}
  /\ UNCHANGED <<rooms, wssOpen>>
  /\ UnchangedBackend

\* The peer of c stops answering while the transport reports nothing
PeerSilent(c) ==
  /\ c \in DOMAIN clients
  /\ clients[c].ready = "OPEN"
  /\ clients[c].answering
  /\ clients' = [clients EXCEPT ![c].answering = FALSE]
  /\ sent' = {}
  /\ UNCHANGED <<rooms, wssOpen>>
  /\ UnchangedBackend

\* broadcastToRoom
BroadcastToRoom(room) ==
  IF room \in DOMAIN rooms
  THEN UNION {SendToClient(clients, c, BroadcastType(room)) : c \in rooms[room]}
  ELSE {}

\* broadcastMetricsUpdate, the 5 s interval of the constructor
BroadcastMetricsUpdate ==
  /\ wssOpen
  /\ sent' = UNION {BroadcastToRoom(r) : r \in Channels}
  /\ UNCHANGED <<clients, rooms, wssOpen>>
  /\ UnchangedBackend

\* WebSocketService.close(): stop broadcasting, close every open socket
WsCloseBody ==
  /\ wssOpen' = FALSE
  /\ clients' = [c \in DOMAIN clients |-> [clients[c] EXCEPT !.ready = "CLOSED"]]
  /\ sent' = {}
  /\ UNCHANGED rooms

WsClose ==
  /\ wssOpen
  /\ WsCloseBody
  /\ UnchangedBackend

\* ------------------------------------------- time-series write and query
\* A metric name as the words its underscores join: <<"cpu", "utilization">>
\* is cpu_utilization
MetricNames ==
  {<<"cpu", "utilization">>, <<"memory", "utilization">>, <<"availability">>}

\* metricName.includes(word + '_')
Includes(metricName, word) ==
  \E i \in 1..(Len(metricName) - 1) : metricName[i] = word

getInfluxMeasurement(metricName) ==
  IF Includes(metricName, "interface") THEN "interface_metrics"
  ELSE IF \/ Includes(metricName, "system")
          \/ Includes(metricName, "cpu")
          \/ Includes(metricName, "memory")
       THEN "system_metrics"
       ELSE "device_metrics"

Measurements == {"interface_metrics", "system_metrics", "device_metrics"}

\* A JavaScript value with its typeof
Values == {<<"number", 42>>, <<"boolean", TRUE>>}

\* String(value)
StringOf(v) ==
  IF v[1] = "boolean" THEN <<"string", IF v[2] THEN "true" ELSE "false">>
  ELSE <<"string", v[2]>>

\* Device ids of records and queries: rtr-1, and the two ids that
\* generateMockMetrics uses, which the schema also seeds as devices
QueryDevices == {"rtr-1", "router-001", "switch-001"}

\* The records storeMetrics may be given
MetricRecords ==
  [deviceId : QueryDevices, metric : MetricNames, value : Values,
   timestamp : 1..MaxTime]

\* flushMetricsToInfluxDBv1: the point written for one record
Point(r) ==
  [measurement |-> getInfluxMeasurement(r.metric),
   device_id |-> r.deviceId,
   metric_name |-> r.metric,
   field |-> IF r.value[1] = "number" THEN "value" ELSE "string_value",
   value |-> IF r.value[1] = "number" THEN r.value ELSE StringOf(r.value),
   time |-> r.timestamp]

\* The points the store holds
Points(fl) == {Point(r) : r \in fl}

\* Two points of one series with one timestamp overwrite each other
SameSeries(a, b) ==
  a.deviceId = b.deviceId /\ a.metric = b.metric /\ a.timestamp = b.timestamp

\* getLatestMetrics(deviceId, timeRange): SELECT last("value") as value,
\* "metric_name" FROM "device_metrics" WHERE "device_id" = deviceId AND
\* time > now() - timeRange GROUP BY "metric_name"
LatestRows(fl, d, since) ==
  LET P == {p \in Points(fl) : /\ p.measurement = "device_metrics"
                               /\ p.device_id = d
                               /\ p.time > since
                               /\ p.field = "value"}
      last == {p \in P : \A o \in P : o.metric_name = p.metric_name
                                        => o.time <= p.time}
  IN {[metric_name |-> p.metric_name, value |-> p.value, time |-> p.time] :
        p \in last}

\* POST /query: SELECT "value" FROM <measurement> GROUP BY "device_id",
\* "metric_name"
CustomRows(fl, m) ==
  {[device_id |-> p.device_id, metric_name |-> p.metric_name,
    value |-> p.value, time |-> p.time] :
     p \in {q \in Points(fl) : q.measurement = m /\ q.field = "value"}}

\* generateMockMetrics(): Math.random() values, time = new Date()
generateMockMetrics(v1, v2, now) ==
  {[device_id |-> "router-001", metric_name |-> <<"cpu", "utilization">>,
    value |-> v1, time |-> now],
   [device_id |-> "switch-001", metric_name |-> <<"memory", "utilization">>,
    value |-> v2, time |-> now]}

MockValues == {v \in Values : v[1] = "number"}

\* queryMetrics(query): no client, the query rejects, or the rows
queryMetrics(rows, fails, mock) ==
  IF ~influxClient THEN [path |-> "noClient", returned |-> mock]
  ELSE IF fails THEN [path |-> "queryFailed", returned |-> mock]
  ELSE [path |-> "store", returned |-> rows]

NoQuery ==
  [kind |-> "none", target |-> "", since |-> 0, path |-> "none",
   returned |-> {}]

UnchangedByQuery ==
  UNCHANGED <<metricsBuffer, inflight, store, influxClient, isInitialized,
              flushTimer, nextRec, failedOnce, devices, sessions,
              pollingIntervals, timers, polls, nextCycle, clients, rooms,
              wssOpen, sent, otherVars>>

\* A flush whose batch holds record r: writePoints resolves
WritePoints(r) ==
  /\ influxClient
  /\ Cardinality(flushed) < MaxPoints
  /\ \A o \in flushed : ~SameSeries(o, r)
  /\ flushed' = flushed \cup {r}
  /\ UNCHANGED lastQuery
  /\ UnchangedByQuery

\* getLatestMetrics(d, timeRange), its range beginning at `since`
GetLatestMetrics(d, since, fails, now) ==
  /\ \E v1, v2 \in MockValues :
       LET q == queryMetrics(LatestRows(flushed, d, since), fails,
                             generateMockMetrics(v1, v2, now))
       IN lastQuery' = [kind |-> "latest", target |-> d, since |-> since,
                        path |-> q.path, returned |-> q.returned]
  /\ UNCHANGED flushed
  /\ UnchangedByQuery

\* POST /query with a SELECT over measurement m
CustomQuery(m, fails, now) ==
  /\ \E v1, v2 \in MockValues :
       LET q == queryMetrics(CustomRows(flushed, m), fails,
                             generateMockMetrics(v1, v2, now))
       IN lastQuery' = [kind |-> "custom", target |-> m, since |-> 0,
                        path |-> q.path, returned |-> q.returned]
  /\ UNCHANGED flushed
  /\ UnchangedByQuery

\* ------------------------------------------------- NetworkMonitoringApp
\* The application owns one MetricsService (metadata and queries; nothing
\* calls storeMetrics on it, so its buffer stays empty) and one SNMPService,
\* whose own MetricsService is the buffer modelled above.
AppBuffer == <<>>

\* start(): metricsService.initialize() builds the pool of the application's
\* MetricsService, snmpService.initialize() initializes the poller's
\* MetricsService; both failures are caught
Start(outcome) ==
  /\ appPhase = "constructed"
  /\ appPhase' = "running"
  /\ appPool' = "open"
  /\ IF isInitialized THEN UNCHANGED bufferVars ELSE InitializeBody(outcome)
  /\ UNCHANGED pollerVars
  /\ UNCHANGED <<wsVars, queryVars, routeVars, clientVars>>

\* startMonitoringTasks: the 60 s interval that calls pollAllDevices
MonitorTick ==
  /\ appPhase \in {"running", "closing"}
  /\ PollAllDevices

\* MetricsService.close() of the application's MetricsService: one
\* flushMetricsBuffer of its own buffer, then pgPool.end()
MetricsClose(pool) ==
  IF pool = "open" THEN "ended" ELSE pool

\* shutdown(): wsService.close(), then metricsService.close(); the poller,
\* its timers and the buffer of its MetricsService are not touched
Shutdown ==
  /\ appPhase \in {"constructed", "running"}
  /\ appPhase' = "closing"
  /\ WsCloseBody
  /\ appPool' = MetricsClose(appPool)
  /\ UNCHANGED bufferVars
  /\ UNCHANGED pollerVars
  /\ UNCHANGED <<queryVars, routeVars, clientVars>>

\* shutdown(): server.close calls back, or the 10 s timeout fires: process.exit
ShutdownExit ==
  /\ appPhase = "closing"
  /\ appPhase' = "exited"
  /\ UNCHANGED appPool
  /\ UNCHANGED bufferVars
  /\ UNCHANGED pollerVars
  /\ UNCHANGED <<wsVars, queryVars, routeVars, clientVars>>

\* --------------------------------------------------------- device routes
\* The routes module holds its own MetricsService (metadata) and its own
\* SNMPService, the poller modelled above. Each handler is one action: its
\* only await before the poller calls is the metadata query.
NoResponse == [route |-> "none", id |-> "", status |-> "none"]

Hosts == {"10.0.0.1", "10.0.0.2"}

\* Statuses with which a request reports an error
ErrorStatuses == {"validation", "notFound", "error"}

Respond(route, id, status) == [route |-> route, id |-> id, status |-> status]

\* What a route action leaves alone besides the poller and the table
UnchangedByRoute ==
  /\ UNCHANGED <<nextCycle, pgPool>>
  /\ UnchangedBufferState
  /\ UNCHANGED <<wsVars, queryVars, appVars, clientVars>>

\* MetricsService.initializePostgreSQL on the MetricsService of the routes:
\* `this.pgPool = new Pool(pgConfig)`. Until it has run pgPool is null and
\* every metadata query throws before anything is changed.
InitializePostgreSQL ==
  /\ pgPool = "null"
  /\ pgPool' = "open"
  /\ UNCHANGED <<deviceRows, response>>
  /\ UNCHANGED pollerVars
  /\ UnchangedBufferState
  /\ UNCHANGED <<wsVars, queryVars, appVars, clientVars>>

\* MetricsService.addDevice: INSERT ... ON CONFLICT (id) DO UPDATE
Upsert(rows, id, host) == Put(rows, id, [host |-> host])

\* POST /: validation, metricsService.addDevice, snmpService.addDevice
PostDevice(id, host, interval, valid) ==
  /\ IF ~valid
     THEN /\ response' = Respond("POST", id, "validation")
          /\ UNCHANGED <<deviceRows, devices, sessions, pollingIntervals,
                         timers, polls>>
     ELSE IF pgPool = "null"
     THEN /\ response' = Respond("POST", id, "error")
          /\ UNCHANGED <<deviceRows, devices, sessions, pollingIntervals,
                         timers, polls>>
     ELSE /\ deviceRows' = Upsert(deviceRows, id, host)
          /\ IF AddDeviceResult(id) = "ok"
             THEN /\ FreeHandles(StopPolling(Poller, id), id) # {}
                  /\ SetPoller(AddDeviceBody(Poller, id, interval))
                  /\ response' = Respond("POST", id, "created")
             ELSE /\ response' = Respond("POST", id, "error")
                  /\ UNCHANGED <<devices, sessions, pollingIntervals, timers,
                                 polls>>
  /\ UnchangedByRoute

\* PUT /:id: getDevice, metricsService.addDevice with the merged row, then
\* removeDevice and addDevice on the poller if a connection detail changed
\* (host = "" stands for an update that changes none)
PutDevice(id, host) ==
  /\ IF pgPool = "null"
     THEN /\ response' = Respond("PUT", id, "error")
          /\ UNCHANGED <<deviceRows, devices, sessions, pollingIntervals,
                         timers, polls>>
     ELSE IF id \notin DOMAIN deviceRows
     THEN /\ response' = Respond("PUT", id, "notFound")
          /\ UNCHANGED <<deviceRows, devices, sessions, pollingIntervals,
                         timers, polls>>
     ELSE /\ deviceRows' = Upsert(deviceRows, id,
                                  IF host = "" THEN deviceRows[id].host ELSE host)
          /\ IF host = ""
             THEN /\ response' = Respond("PUT", id, "ok")
                  /\ UNCHANGED <<devices, sessions, pollingIntervals, timers,
                                 polls>>
             ELSE IF LookupResult(id) = "ok"
             THEN LET P == RemoveDeviceBody(Poller, id) IN
                  /\ FreeHandles(P, id) # {}
                  /\ SetPoller(AddDeviceBody(P, id, 0))
                  /\ response' = Respond("PUT", id, "ok")
             ELSE /\ response' = Respond("PUT", id, "error")
                  /\ UNCHANGED <<devices, sessions, pollingIntervals, timers,
                                 polls>>
  /\ UnchangedByRoute

\* DELETE /:id: getDevice, snmpService.removeDevice, metricsService.removeDevice
DeleteDevice(id) ==
  /\ IF pgPool = "null"
     THEN /\ response' = Respond("DELETE", id, "error")
          /\ UNCHANGED <<deviceRows, devices, sessions, pollingIntervals,
                         timers, polls>>
     ELSE IF id \notin DOMAIN deviceRows
     THEN /\ response' = Respond("DELETE", id, "notFound")
          /\ UNCHANGED <<deviceRows, devices, sessions, pollingIntervals,
                         timers, polls>>
     ELSE IF LookupResult(id) = "ok"
     THEN /\ SetPoller(RemoveDeviceBody(Poller, id))
          /\ deviceRows' = Drop(deviceRows, id)
          /\ response' = Respond("DELETE", id, "ok")
     ELSE /\ response' = Respond("DELETE", id, "error")
          /\ UNCHANGED <<deviceRows, devices, sessions, pollingIntervals,
                         timers, polls>>
  /\ UnchangedByRoute

\* POST /:id/test: getDevice, then pollDevice, whose rejection is answered
\* as a failed test
TestDevice(id) ==
  /\ pgPool = "open"
  /\ id \in DOMAIN deviceRows
  /\ PollDeviceCall(id)

\* ------------------------------------------- dashboard WebSocketProvider
\* The browser side: WebSocket objects that have not closed yet (a closed
\* object raises no further event and its number is free again), and the
\* setTimeout handles that have not fired. Every handler of a socket is a
\* closure of the render that called connect(), in which isAuthenticated
\* was true.
MAX_RECONNECT_ATTEMPTS == 5

SocketIds == 1..MaxSockets

TimeoutIds == 1..MaxTimeouts

\* event.code of a close event: 1000 after a completed closing handshake
\* with that code, 1006 when the connection was lost or never established
CloseCodes == {1000, 1006}

FreshSocket == CHOOSE x \in SocketIds \ DOMAIN sockets :
                 \A y \in SocketIds \ DOMAIN sockets : x <= y

\* clearTimeout(handle)
ClearTimeoutSkipped(pending, handle) == pending

ClearTimeout(pending, handle) == pending \ {handle}

FreshTimeout(pending) == CHOOSE x \in TimeoutIds \ pending :
                           \A y \in TimeoutIds \ pending : x <= y

\* connect(): returns while connecting or while wsRef holds an OPEN socket;
\* otherwise creates a socket and points wsRef at it
ConnectReturnsEarly ==
  isConnectingRef \/ (wsRef # 0 /\ wsRef \in DOMAIN sockets /\ sockets[wsRef] = "OPEN")

ConnectBody ==
  IF ConnectReturnsEarly
  THEN UNCHANGED <<sockets, newestSocket, wsRef, isConnectingRef>>
  ELSE /\ SocketIds \ DOMAIN sockets # {}
       /\ sockets' = Put(sockets, FreshSocket, "CONNECTING")
       /\ newestSocket' = FreshSocket
       /\ wsRef' = FreshSocket
       /\ isConnectingRef' = TRUE

UnchangedByClient ==
  /\ UNCHANGED bufferVars
  /\ UNCHANGED pollerVars
  /\ UNCHANGED <<wsVars, queryVars, appVars, routeVars>>

\* connect() called by the authentication effect or by a consumer
ClientConnect ==
  /\ ConnectBody
  /\ UNCHANGED <<isConnected, reconnectAttemptsRef, reconnectTimeoutRef,
                 pendingTimeouts>>
  /\ UnchangedByClient

\* disconnect(): clear the reconnect timer, close(1000) the socket wsRef
\* holds and forget it, isConnected false
ClientDisconnect ==
  /\ IF reconnectTimeoutRef # 0
     THEN /\ pendingTimeouts' = ClearTimeout(pendingTimeouts, reconnectTimeoutRef)
          /\ reconnectTimeoutRef' = 0
     ELSE UNCHANGED <<pendingTimeouts, reconnectTimeoutRef>>
  /\ IF wsRef # 0
     THEN /\ sockets' = [x \in DOMAIN sockets |->
                           IF x = wsRef THEN "CLOSING" ELSE sockets[x]]
          /\ wsRef' = 0
     ELSE UNCHANGED <<sockets, wsRef>>
  /\ isConnected' = FALSE
  /\ UNCHANGED <<newestSocket, isConnectingRef, reconnectAttemptsRef>>
  /\ UnchangedByClient

\* ws.onopen of socket x
SocketOpen(x) ==
  /\ x \in DOMAIN sockets
  /\ sockets[x] = "CONNECTING"
  /\ sockets' = [sockets EXCEPT ![x] = "OPEN"]
  /\ isConnectingRef' = FALSE
  /\ reconnectAttemptsRef' = 0
  /\ isConnected' = TRUE
  /\ UNCHANGED <<newestSocket, wsRef, reconnectTimeoutRef, pendingTimeouts>>
  /\ UnchangedByClient

\* ws.onclose: the reconnect condition
MayReconnect(code, attempts) ==
  code # 1000 /\ attempts < MAX_RECONNECT_ATTEMPTS

\* ws.onclose of socket x with event.code = code, scheduleReconnect included
SocketClose(x, code) ==
  /\ x \in DOMAIN sockets
  /\ sockets' = Drop(sockets, x)
  /\ isConnectingRef' = FALSE
  /\ isConnected' = FALSE
  /\ wsRef' = 0
  /\ IF MayReconnect(code, reconnectAttemptsRef)
     THEN LET cleared == IF reconnectTimeoutRef # 0
                         THEN ClearTimeout(pendingTimeouts, reconnectTimeoutRef)
                         ELSE pendingTimeouts
          IN /\ TimeoutIds \ cleared # {}
             /\ reconnectAttemptsRef' = reconnectAttemptsRef + 1
             /\ pendingTimeouts' = cleared \cup {FreshTimeout(cleared)}
             /\ reconnectTimeoutRef' = FreshTimeout(cleared)
     ELSE UNCHANGED <<reconnectAttemptsRef, pendingTimeouts, reconnectTimeoutRef>>
  /\ UNCHANGED newestSocket
  /\ UnchangedByClient

\* ws.onerror of socket x
SocketError(x) ==
  /\ x \in DOMAIN sockets
  /\ sockets[x] \in {"CONNECTING", "OPEN"}
  /\ isConnectingRef' = FALSE
  /\ UNCHANGED <<sockets, newestSocket, wsRef, isConnected,
                 reconnectAttemptsRef, reconnectTimeoutRef, pendingTimeouts>>
  /\ UnchangedByClient

\* The reconnect timeout h fires: `if (isAuthenticated) connect()`
ReconnectFire(h) ==
  /\ h \in pendingTimeouts
  /\ pendingTimeouts' = pendingTimeouts \ {h}
  /\ ConnectBody
  /\ UNCHANGED <<isConnected, reconnectAttemptsRef, reconnectTimeoutRef>>
  /\ UnchangedByClient

Init ==
  /\ metricsBuffer = <<>>
  /\ inflight = {}
  /\ store = <<>>
  /\ influxClient = FALSE
  /\ isInitialized = FALSE
  /\ flushTimer = FALSE
  /\ nextRec = 1
  /\ failedOnce = {}
  /\ devices = EmptyMap
  /\ sessions = {}
  /\ pollingIntervals = EmptyMap
  /\ timers = EmptyMap
  /\ polls = {}
  /\ nextCycle = 1
  /\ clients = EmptyMap
  /\ rooms = EmptyMap
  /\ wssOpen = TRUE
  /\ sent = {}
  /\ flushed = {}
  /\ lastQuery = NoQuery
  /\ appPhase = "constructed"
  /\ appPool = "null"
  /\ pgPool = "null"
  /\ deviceRows = EmptyMap
  /\ response = NoResponse
  /\ sockets = EmptyMap
  /\ newestSocket = 0
  /\ wsRef = 0
  /\ isConnected = FALSE
  /\ isConnectingRef = FALSE
  /\ reconnectAttemptsRef = 0
  /\ reconnectTimeoutRef = 0
  /\ pendingTimeouts = {}

\* Callers of storeMetrics in the buffer-only specification
BufferCallers == {"rtr-1"}

NextBuffer ==
  \/ \E o \in {"pgFail", "mock", "ok"} : Initialize(o)
  \/ \E d \in BufferCallers, k \in 0..MaxBatch : StoreMetrics(d, k)
  \/ FlushTick
  \/ \E b \in inflight : FlushWritten(b)
  \/ \E b \in inflight : FlushFailed(b)

SpecBuffer == Init /\ [][NextBuffer]_vars

\* The buffer under the scheduling Node gives it: an armed interval keeps
\* firing and a pending write settles. Nothing in the code makes initialize()
\* run on every MetricsService instance (SNMPService.js:13 builds one and
\* never initializes it), so Initialize carries no fairness.
FairBuffer ==
  /\ WF_vars(FlushTick)
  /\ WF_vars(\E b \in inflight : FlushWritten(b) \/ FlushFailed(b))

SpecBufferFair == Init /\ [][NextBuffer]_vars /\ FairBuffer

\* The poller with its own MetricsService
NextPoller ==
  \/ \E id \in DeviceIds, i \in PollIntervals : AddDevice(id, i)
  \/ \E id \in DeviceIds : RemoveDevice(id)
  \/ \E id \in DeviceIds : UpdateDevice(id)
  \/ \E id \in DeviceIds : StartPollingCall(id)
  \/ \E h \in DOMAIN timers : TimerPoll(h)
  \/ \E id \in DeviceIds : TestPoll(id)
  \/ PollAllDevices
  \/ \E p \in polls, k \in 0..MaxStepRecs : SysOk(p, k)
  \/ \E p \in polls : SysFailed(p)
  \/ \E p \in polls, k \in 0..MaxStepRecs : IfOk(p, k)
  \/ \E p \in polls : IfFailed(p)
  \/ \E p \in polls, k \in 0..MaxStepRecs : ResOk(p, k)
  \/ \E p \in polls : ResFailed(p)

SpecPoller == Init /\ [][NextPoller]_vars

\* The device registry of the poller under every operation of SNMPService,
\* stopPolling and close() included, with poll cycles whose responses carry
\* nothing to store
NextRegistry ==
  \/ \E id \in DeviceIds, i \in PollIntervals : AddDevice(id, i)
  \/ \E id \in DeviceIds : RemoveDevice(id)
  \/ \E id \in DeviceIds : UpdateDevice(id)
  \/ \E id \in DeviceIds : StartPollingCall(id)
  \/ \E id \in DeviceIds : StopPollingCall(id)
  \/ Close
  \/ \E h \in DOMAIN timers : TimerPoll(h)
  \/ \E id \in DeviceIds : TestPoll(id)
  \/ PollAllDevices
  \/ \E p \in polls : SysOk(p, 0)
  \/ \E p \in polls : SysFailed(p)
  \/ \E p \in polls : IfOk(p, 0)
  \/ \E p \in polls : IfFailed(p)
  \/ \E p \in polls : ResOk(p, 0)
  \/ \E p \in polls : ResFailed(p)

SpecRegistry == Init /\ [][NextRegistry]_vars

\* The WebSocket service
NextWs ==
  \/ \E c \in ClientIds : Connect(c)
  \/ \E c \in ClientIds, t \in Tokens : HandleAuthentication(c, t)
  \/ \E c \in ClientIds, chs \in ChannelInputs : HandleSubscription(c, chs)
  \/ \E c \in ClientIds, chs \in ChannelInputs : HandleUnsubscription(c, chs)
  \/ \E c \in ClientIds : HandlePing(c)
  \/ \E c \in ClientIds : HandleMetricsRequest(c)
  \/ \E c \in ClientIds : HandleBadMessage(c)
  \/ \E c \in ClientIds : TransportClose(c)
  \/ \E c \in ClientIds : HandleDisconnection(c)
  \/ BroadcastMetricsUpdate
  \/ WsClose

SpecWs == Init /\ [][NextWs]_vars

\* Connections with their heartbeat. The ping interval keeps firing, a peer
\* that answers has its pong handled, and a close event is handled once the
\* socket has closed; nothing makes the transport report a silent peer.
NextHeartbeat ==
  \/ \E c \in ClientIds : Connect(c)
  \/ \E c \in ClientIds, t \in Tokens : HandleAuthentication(c, t)
  \/ \E c \in ClientIds, chs \in ChannelInputs : HandleSubscription(c, chs)
  \/ \E c \in ClientIds : PingTick(c)
  \/ \E c \in ClientIds : Pong(c)
  \/ \E c \in ClientIds : PeerSilent(c)
  \/ \E c \in ClientIds : TransportClose(c)
  \/ \E c \in ClientIds : HandleDisconnection(c)

FairHeartbeat ==
  \A c \in ClientIds :
    /\ WF_vars(PingTick(c))
    /\ WF_vars(Pong(c))
    /\ WF_vars(HandleDisconnection(c))

SpecHeartbeat == Init /\ [][NextHeartbeat]_vars /\ FairHeartbeat

\* The time-series store: writes of flushed records and queries
NextQuery ==
  \/ \E o \in {"pgFail", "mock", "ok"} : Initialize(o)
  \/ \E r \in MetricRecords : WritePoints(r)
  \/ \E d \in QueryDevices, since \in 0..(MaxTime - 1), fails \in BOOLEAN,
        now \in 1..MaxTime : GetLatestMetrics(d, since, fails, now)
  \/ \E m \in Measurements, fails \in BOOLEAN, now \in 1..MaxTime :
        CustomQuery(m, fails, now)

SpecQuery == Init /\ [][NextQuery]_vars

\* The application from start to exit, with the poller it owns. Nothing runs
\* after process.exit.
ShutdownDevices == {"rtr-1"}

Alive == appPhase # "exited"

NextShutdown ==
  \/ \E o \in {"pgFail", "mock", "ok"} : Start(o)
  \/ Shutdown
  \/ ShutdownExit
  \/ Alive /\ \E id \in ShutdownDevices, i \in PollIntervals : AddDevice(id, i)
  \/ Alive /\ \E h \in DOMAIN timers : TimerPoll(h)
  \/ Alive /\ MonitorTick
  \/ Alive /\ \E p \in polls, k \in 0..MaxStepRecs : SysOk(p, k)
  \/ Alive /\ \E p \in polls : SysFailed(p)
  \/ Alive /\ \E p \in polls, k \in 0..MaxStepRecs : IfOk(p, k)
  \/ Alive /\ \E p \in polls : IfFailed(p)
  \/ Alive /\ \E p \in polls, k \in 0..MaxStepRecs : ResOk(p, k)
  \/ Alive /\ \E p \in polls : ResFailed(p)
  \/ Alive /\ FlushTick
  \/ Alive /\ \E b \in inflight : FlushWritten(b)
  \/ Alive /\ \E b \in inflight : FlushFailed(b)

SpecShutdown == Init /\ [][NextShutdown]_vars

\* The device routes over their MetricsService and their poller
RouteIds == {"rtr-1"}

NextRoutes ==
  \/ InitializePostgreSQL
  \/ \E id \in RouteIds, h \in Hosts, i \in PollIntervals, v \in BOOLEAN :
       PostDevice(id, h, i, v)
  \/ \E id \in RouteIds, h \in Hosts \cup {""} : PutDevice(id, h)
  \/ \E id \in RouteIds : DeleteDevice(id)
  \/ \E id \in RouteIds : TestDevice(id)
  \/ \E h \in DOMAIN timers : TimerPoll(h)
  \/ \E p \in polls, k \in 0..MaxStepRecs : SysOk(p, k)
  \/ \E p \in polls : SysFailed(p)
  \/ \E p \in polls, k \in 0..MaxStepRecs : IfOk(p, k)
  \/ \E p \in polls : IfFailed(p)
  \/ \E p \in polls, k \in 0..MaxStepRecs : ResOk(p, k)
  \/ \E p \in polls : ResFailed(p)

SpecRoutes == Init /\ [][NextRoutes]_vars

\* End to end: devices registered through the routes, polled by the routes'
\* poller, their records buffered by the MetricsService that poller built
\* for itself. An armed flush interval keeps firing and the store is
\* reachable: a write that is retried again and again eventually succeeds.
\* Nothing in the routes module calls initialize() on its poller
\* (part_009:9), so Initialize carries no fairness.
NextDelivery ==
  \/ NextRoutes
  \/ \E o \in {"pgFail", "mock", "ok"} : Initialize(o)
  \/ FlushTick
  \/ \E b \in inflight : FlushWritten(b)
  \/ \E b \in inflight : FlushFailed(b)

FairDelivery ==
  /\ WF_vars(FlushTick)
  /\ WF_vars(\E b \in inflight : FlushWritten(b) \/ FlushFailed(b))
  /\ SF_vars(\E b \in inflight : FlushWritten(b))

SpecDelivery == Init /\ [][NextDelivery]_vars /\ FairDelivery

\* The dashboard client
NextClient ==
  \/ ClientConnect
  \/ ClientDisconnect
  \/ \E x \in SocketIds : SocketOpen(x)
  \/ \E x \in SocketIds, code \in CloseCodes : SocketClose(x, code)
  \/ \E x \in SocketIds : SocketError(x)
  \/ \E h \in TimeoutIds : ReconnectFire(h)

SpecClient == Init /\ [][NextClient]_vars

\* The dashboard client whose sockets raise no error event: connect(),
\* disconnect(), opens, closes and the reconnect timer only
NextSupersede ==
  \/ ClientConnect
  \/ ClientDisconnect
  \/ \E x \in SocketIds : SocketOpen(x)
  \/ \E x \in SocketIds, code \in CloseCodes : SocketClose(x, code)
  \/ \E h \in TimeoutIds : ReconnectFire(h)

SpecSupersede == Init /\ [][NextSupersede]_vars

\* The whole backend
Next ==
  \/ NextBuffer
  \/ NextPoller
  \/ \E id \in DeviceIds : StopPollingCall(id)
  \/ Close
  \/ NextWs
  \/ \E c \in ClientIds : PingTick(c) \/ Pong(c) \/ PeerSilent(c)
  \/ NextQuery

Spec == Init /\ [][Next]_vars

\* ------------------------------------------------------------- properties
RecordsOf(seq, n) == {i \in 1..Len(seq) : seq[i].id = n}

\* Where record n is held: positions in the buffer, in pending batches, in the store
Places(n) ==
  {<<"buffer", <<>>, i>> : i \in RecordsOf(metricsBuffer, n)}
    \cup UNION {{<<"batch", b, i>> : i \in RecordsOf(b, n)} : b \in inflight}
    \cup {<<"store", <<>>, i>> : i \in RecordsOf(store, n)}

Pending == UNION {Range(b) : b \in inflight}

\* Records created by the step being taken
NewRecords_ == {r \in Range(metricsBuffer') \cup UNION {Range(b) : b \in inflight'} :
                  r.id >= nextRec}

TimersOf(tm, id) == {h \in DOMAIN tm : h[1] = id}

\* What the poller holds about the devices other than id
OthersUnchanged(id) ==
  /\ \A b \in DOMAIN devices \ {id} :
       b \in DOMAIN devices' /\ devices'[b] = devices[b]
  /\ sessions' \ {id} = sessions \ {id}
  /\ \A b \in DOMAIN pollingIntervals \ {id} :
       b \in DOMAIN pollingIntervals' /\ pollingIntervals'[b] = pollingIntervals[b]
  /\ \A h \in DOMAIN timers :
       h[1] # id => h \in DOMAIN timers' /\ timers'[h] = timers[h]
  /\ \A h \in DOMAIN timers' : h[1] # id => h \in DOMAIN timers
  /\ {q \in polls' : q.id # id} = {q \in polls : q.id # id}

\* C1: a poll cycle of device A that fails, at whichever step, leaves every
\* other device's status, lastPoll and lastError, its session, its timer and
\* its pending polls as they were.
C1_Isolation ==
  [][\A p \in polls :
       (SysFailed(p) \/ IfFailed(p) \/ ResFailed(p)) => OthersUnchanged(p.id)]_vars

\* C1 witness: device A is down after a failed cycle while device B, polled
\* before, is still up with its lastPoll.
C1_Witness ==
  \E a, b \in DOMAIN devices :
    /\ a # b
    /\ devices[a].status = "down" /\ devices[a].lastError # "none"
    /\ devices[b].status = "up" /\ devices[b].lastPoll # 0
    /\ b \in DOMAIN pollingIntervals

\* C2: no broadcast message is ever sent to a connection that is not
\* authenticated, and no room ever holds such a connection.
C2_NoBroadcastUnauthenticated ==
  /\ \A m \in sent :
       m[2] \in Broadcasts =>
         m[1] \in DOMAIN clients /\ clients[m[1]].authenticated
  /\ \A r \in DOMAIN rooms : \A c \in rooms[r] :
       c \in DOMAIN clients /\ clients[c].authenticated

\* C2 witness: a broadcast goes out to a subscriber while another connection
\* is open and unauthenticated.
C2_Witness ==
  /\ \E m \in sent : m[2] \in Broadcasts
  /\ \E c \in DOMAIN clients :
       ~clients[c].authenticated /\ clients[c].ready = "OPEN"

\* C3: every record storeMetrics accepted is held exactly once: in the
\* buffer, in one pending batch, or in the store; so a batch whose write
\* failed is back in the buffer whole.
C3_NoRecordLost ==
  \A n \in 1..(nextRec - 1) : Cardinality(Places(n)) = 1

\* C3 witness: a record of a failed batch is back in the buffer while
\* another batch is pending and a third has been written.
C3_Witness ==
  /\ \E n \in failedOnce : RecordsOf(metricsBuffer, n) # {}
  /\ inflight # {}
  /\ store # <<>>

\* C4 as claimed: records reach the store in the order they entered the
\* buffer (record ids grow in that order).
C4_StoreInAppendOrder ==
  \A i, j \in 1..Len(store) : i < j => store[i].id < store[j].id

\* C5: no record is written to the store twice, and a record of a batch
\* whose write failed, once written, is written once and held nowhere else.
C5_WrittenAtMostOnce ==
  /\ \A n \in 1..(nextRec - 1) : Cardinality(RecordsOf(store, n)) <= 1
  /\ \A n \in failedOnce :
       RecordsOf(store, n) # {} =>
         /\ Cardinality(RecordsOf(store, n)) = 1
         /\ RecordsOf(metricsBuffer, n) = {}
         /\ \A b \in inflight : RecordsOf(b, n) = {}

\* C5 witness: a record of a batch whose write failed has since been written.
C5_Witness ==
  \E n \in failedOnce : RecordsOf(store, n) # {}

\* C6: every registered device has exactly one active timer, the one in
\* pollingIntervals, running at the device's pollInterval.
C6_OneTimerPerDevice ==
  \A id \in DOMAIN devices :
    /\ id \in DOMAIN pollingIntervals
    /\ TimersOf(timers, id) = {pollingIntervals[id]}
    /\ timers[pollingIntervals[id]] = devices[id].pollInterval

\* C6 witness: a device registered again while a poll of its earlier
\* registration is still pending, holding one timer.
C6_Witness ==
  \E p \in polls :
    /\ ~p.attached
    /\ p.id \in DOMAIN devices
    /\ Cardinality(TimersOf(timers, p.id)) = 1

\* C7: addDevice of a registered id reports a duplicate and changes nothing;
\* of a new id it makes one device entry, one session and one timer at the
\* descriptor's pollInterval, and leaves the other devices alone.
C7_AddDevice ==
  [][\A id \in DeviceIds, i \in PollIntervals :
       AddDevice(id, i) =>
         IF id \in DOMAIN devices
         THEN /\ AddDeviceResult(id) = "alreadyExists"
              /\ UNCHANGED <<devices, sessions, pollingIntervals, timers, polls>>
         ELSE /\ AddDeviceResult(id) = "ok"
              /\ DOMAIN devices' = DOMAIN devices \cup {id}
              /\ devices'[id].status = "unknown" /\ devices'[id].lastPoll = 0
              /\ sessions' = sessions \cup {id}
              /\ id \in DOMAIN pollingIntervals'
              /\ TimersOf(timers', id) = {pollingIntervals'[id]}
              /\ timers'[pollingIntervals'[id]] =
                   (IF i = 0 THEN DefaultPollInterval ELSE i)
              /\ OthersUnchanged(id)]_vars

\* C7 witness: a device registered with a pollInterval of its own, with its
\* session and its timer at that interval.
C7_Witness ==
  \E id \in DOMAIN devices :
    /\ devices[id].pollInterval # DefaultPollInterval
    /\ id \in sessions
    /\ timers[pollingIntervals[id]] = devices[id].pollInterval

\* C8: removeDevice of an absent id reports not-found and changes nothing;
\* of a present id it removes the entry, the session and the timer and leaves
\* the other devices alone; no timer exists for an unregistered id and no
\* poll cycle starts for one.
C8_RemoveDevice ==
  /\ [](\A h \in DOMAIN timers : h[1] \in DOMAIN devices)
  /\ [][/\ \A id \in DeviceIds :
             RemoveDevice(id) =>
               IF id \notin DOMAIN devices
               THEN /\ LookupResult(id) = "notFound"
                    /\ UNCHANGED <<devices, sessions, pollingIntervals, timers,
                                   polls>>
               ELSE /\ id \notin DOMAIN devices'
                    /\ id \notin sessions'
                    /\ id \notin DOMAIN pollingIntervals'
                    /\ TimersOf(timers', id) = {}
                    /\ OthersUnchanged(id)
        /\ \A p \in polls' :
             p.cycle >= nextCycle => p.id \in DOMAIN devices /\ p.attached]_vars

\* C8 witness: a device was removed while one of its polls was pending and
\* another device is still registered with its timer.
C8_Witness ==
  /\ \E p \in polls : p.id \notin DOMAIN devices
  /\ \E b \in DOMAIN devices : b \in DOMAIN pollingIntervals

\* C9: a step of a poll cycle appends records to the buffer only while the
\* device object the cycle began with is still registered, and a cycle whose
\* device has been unregistered ends without changing any registered device.
C9_StaleCycleDiscarded ==
  [][/\ \A r \in NewRecords_ :
          \E p \in polls : p.cycle = r.cycle /\ p.id = r.deviceId /\ p.attached
     /\ \A p \in polls \ polls' : ~p.attached => devices' = devices]_vars

\* C9 witness: a cycle stored the records of its first step, then its device
\* was unregistered while the cycle was still pending.
C9_Witness ==
  \E p \in polls :
    /\ ~p.attached
    /\ \E i \in 1..Len(metricsBuffer) : metricsBuffer[i].cycle = p.cycle

\* C10: a storeMetrics call never writes to the store itself; a call that
\* leaves the buffer below the threshold only appends; a call that brings it
\* to the threshold or beyond hands the whole buffer to a flush at once
\* (which, with no store client, returns without taking it).
C10_ThresholdFlush ==
  [][\A d \in BufferCallers, k \in 0..MaxBatch :
       StoreMetrics(d, k) =>
         LET appended == metricsBuffer \o NewRecords(d, 0, "cpu_utilization", k)
         IN /\ store' = store
            /\ Len(appended) < bufferSize =>
                 metricsBuffer' = appended /\ inflight' = inflight
            /\ Len(appended) >= bufferSize /\ influxClient =>
                 metricsBuffer' = <<>> /\ inflight' = inflight \cup {appended}
            /\ Len(appended) >= bufferSize /\ ~influxClient =>
                 metricsBuffer' = appended /\ inflight' = inflight]_vars

\* C10 witness: a batch of exactly the threshold's length is pending, nothing
\* is written yet and the buffer is empty.
C10_Witness ==
  /\ \E b \in inflight : Len(b) = bufferSize
  /\ metricsBuffer = <<>>
  /\ store = <<>>
  /\ failedOnce = {}

\* C11 as claimed: every record appended to the buffer of any MetricsService
\* is eventually taken by a flush (handed to a store write).
C11_EventuallyFlushed ==
  \A n \in 1..MaxRecs :
    (RecordsOf(metricsBuffer, n) # {}) ~>
      (n \in Ids(store) \/ \E b \in inflight : n \in Ids(b))

\* C12 as claimed: after getLatestMetrics(d, range) answered from the store,
\* every flushed record of device d with a numeric value and its timestamp
\* in the range, the latest of its metric, is among the rows with an equal
\* value.
C12_RoundTrip ==
  (lastQuery.kind = "latest" /\ lastQuery.path = "store") =>
    \A r \in flushed :
      (/\ r.deviceId = lastQuery.target
       /\ r.timestamp > lastQuery.since
       /\ r.value[1] = "number"
       /\ \A o \in flushed :
            (o.deviceId = r.deviceId /\ o.metric = r.metric)
              => o.timestamp <= r.timestamp)
        => \E row \in lastQuery.returned :
             row.metric_name = r.metric /\ row.value = r.value

\* What the query q returns when it is answered from the store, over the
\* stores of at most two records
StoreResults(q) ==
  LET Stores == {{a, b} : a, b \in MetricRecords}
  IN IF q.kind = "custom"
     THEN {CustomRows(fl, q.target) : fl \in Stores}
     ELSE {LatestRows(fl, q.target, q.since) : fl \in Stores}

\* C13 as claimed: a query answered without the store (no client, or the
\* query failed) returns a value that the same query answered from the
\* store never returns, so that the caller can tell the two apart.
C13_DegradedMarked ==
  lastQuery.path \in {"noClient", "queryFailed"} =>
    lastQuery.returned \notin StoreResults(lastQuery)

\* The poll cycle p, pending now, ends in the step being taken
CycleEnds(p) == p \in polls /\ \A q \in polls' : q.cycle # p.cycle

\* C14 as claimed: after a poll cycle that succeeds, the device's status is
\* up, its lastPoll is that cycle and its lastError is cleared.
C14_SuccessClearsError ==
  [][\A p \in polls :
       (p.attached /\ p.pc = "res" /\ CycleEnds(p)) =>
         /\ devices'[p.id].status = "up"
         /\ devices'[p.id].lastPoll = p.cycle
         /\ devices'[p.id].lastError = "none"]_vars

\* C15 as claimed: once a poll cycle of a registered device has completed,
\* succeeded or failed, the device's status is up or down and its lastPoll
\* is set.
C15_LastPollSet ==
  [][\A p \in polls :
       (p.attached /\ CycleEnds(p)) =>
         /\ devices'[p.id].status \in {"up", "down"}
         /\ devices'[p.id].lastPoll # 0]_vars

\* C16: a poll cycle ends with the device down and lastError recorded exactly
\* when it ends at the system or the interface step, which is when that step
\* failed, and the cycle goes no further; a cycle that reaches the resource
\* step ends with the device up and lastError untouched, whether the
\* resource step failed or not.
C16_StepFailures ==
  [][\A p \in polls :
       /\ (p.attached /\ CycleEnds(p)) =>
            IF p.pc \in {"sys", "if"}
            THEN /\ devices'[p.id].status = "down"
                 /\ devices'[p.id].lastError = ErrorOf(p)
                 /\ devices'[p.id].lastPoll = devices[p.id].lastPoll
            ELSE /\ devices'[p.id].status = "up"
                 /\ devices'[p.id].lastError = devices[p.id].lastError
       /\ (SysFailed(p) \/ IfFailed(p)) => CycleEnds(p)
       /\ (p.attached /\ ResFailed(p)) =>
            devices' = MarkUp(devices, p) /\ devices'[p.id].status = "up"]_vars

\* C16 witness: a device that a cycle brought up and a later cycle, failing
\* at its first or second step, brought down.
C16_Witness ==
  \E id \in DOMAIN devices :
    /\ devices[id].status = "down"
    /\ devices[id].lastError = "timeout"
    /\ devices[id].lastPoll # 0


\* C17: a subscribe message from a connection that is not authenticated is
\* answered with an error to that connection and nothing else, and leaves
\* every room and every connection's subscriptions as they were.
C17_UnauthenticatedSubscribe ==
  [][\A c \in ClientIds, chs \in ChannelInputs :
       (/\ c \in DOMAIN clients
        /\ ~clients[c].authenticated
        /\ HandleSubscription(c, chs)) =>
         /\ rooms' = rooms
         /\ clients' = clients
         /\ sent' \subseteq {<<c, "error">>}
         /\ clients[c].ready = "OPEN" => sent' = {<<c, "error">>}]_vars

\* C17 witness: an unauthenticated connection has just been answered with
\* an error, holds no subscription and is in no room, while another
\* connection is subscribed.
C17_Witness ==
  \E c \in DOMAIN clients :
    /\ ~clients[c].authenticated
    /\ clients[c].subscriptions = {}
    /\ sent = {<<c, "error">>}
    /\ \E r \in DOMAIN rooms : rooms[r] # {} /\ c \notin rooms[r]

\* C18 as claimed: a credential message whose credential is not a valid one
\* leaves the connection unauthenticated and is answered with auth_error.
C18_OnlyValidCredential ==
  [][\A c \in ClientIds, t \in Tokens \ {"valid"} :
       (/\ c \in DOMAIN clients
        /\ ~clients[c].authenticated
        /\ HandleAuthentication(c, t)) =>
         /\ ~clients'[c].authenticated
         /\ sent' \subseteq {<<c, "auth_error">>}]_vars

\* The handler of one bad message from connection c: malformed JSON or an
\* unknown type, a credential message with no credential, a subscribe or a
\* request_metrics from a connection that is not authenticated
BadMessage(c) ==
  \/ HandleBadMessage(c)
  \/ HandleAuthentication(c, "")
  \/ ~clients[c].authenticated /\ \E chs \in ChannelInputs :
                                     HandleSubscription(c, chs)
  \/ ~clients[c].authenticated /\ HandleMetricsRequest(c)

\* C19: a bad message is answered with an error or auth_error to its sender
\* alone, and changes neither the sender's connection nor any other
\* connection, nor any room.
C19_BadMessage ==
  [][\A c \in ClientIds :
       (c \in DOMAIN clients /\ BadMessage(c)) =>
         /\ clients' = clients
         /\ rooms' = rooms
         /\ wssOpen' = wssOpen
         /\ sent' \subseteq {<<c, "error">>, <<c, "auth_error">>}
         /\ clients[c].ready = "OPEN" => sent' # {}]_vars

\* C19 witness: a connection has just been answered with auth_error, is
\* still open and unauthenticated, and another connection is authenticated
\* and subscribed.
C19_Witness ==
  \E c, o \in DOMAIN clients :
    /\ c # o
    /\ sent = {<<c, "auth_error">>}
    /\ clients[c].ready = "OPEN" /\ ~clients[c].authenticated
    /\ clients[o].authenticated /\ clients[o].subscriptions # {}

\* C20 as claimed: a connection whose peer has stopped answering pings is
\* eventually removed by the server from the connection map and from every
\* room, whether or not the transport ever reports a close.
C20_HeartbeatTimeout ==
  \A c \in ClientIds :
    (c \in DOMAIN clients /\ ~clients[c].answering) ~>
      (c \notin DOMAIN clients /\ \A r \in DOMAIN rooms : c \notin rooms[r])

\* C21: when shutdown completes with the store reachable (a client exists and
\* no write has failed), no accepted record is left unwritten: every record
\* taken by storeMetrics is in the store when the process exits.
C21_ShutdownFlushes ==
  (appPhase = "exited" /\ influxClient /\ failedOnce = {}) =>
    \A n \in 1..(nextRec - 1) : RecordsOf(store, n) # {}

\* Every record held anywhere: buffer, pending batches, store
AllRecords == Range(metricsBuffer) \cup Pending \cup Range(store)

\* C22: a poll cycle hands all its records to the buffer in a single store
\* call made once its steps are done, so while a cycle is still in flight
\* (and may yet fail) none of its records is in the buffer, in a pending
\* batch or in the store.
C22_OneBatchPerCycle ==
  \A p \in polls : \A r \in AllRecords : r.cycle # p.cycle

\* C23: for every device at most one poll cycle is in flight at any time,
\* whichever of the device's timer, pollAllDevices and the connectivity
\* test started it.
C23_OneCycleInFlight ==
  \A p, q \in polls : p.id = q.id => p = q

\* The connections subscribed to channel ch
Subscribers(cl, ch) == {c \in DOMAIN cl : ch \in cl[c].subscriptions}

\* C24: a channel is in the channel map if and only if at least one
\* connection is currently subscribed to it, and no channel in the map has an
\* empty member set.
C24_ChannelsLazy ==
  /\ \A r \in DOMAIN rooms : rooms[r] # {}
  /\ \A ch \in Channels : ch \in DOMAIN rooms <=> Subscribers(clients, ch) # {}

\* C24 witness: an unsubscription has just emptied the subscriptions of a
\* connection while another connection keeps exactly one channel alive.
C24_Witness ==
  \E c, o \in DOMAIN clients :
    /\ c # o
    /\ sent = {<<c, "unsubscription_success">>}
    /\ clients[c].authenticated /\ clients[c].subscriptions = {}
    /\ clients[o].subscriptions = {"alerts"}
    /\ DOMAIN rooms = {"alerts"}

\* Whether a broadcast on channel ch is due to connection x
BroadcastDue(x, ch) ==
  /\ x \in DOMAIN clients
  /\ clients[x].ready = "OPEN"
  /\ clients[x].authenticated
  /\ ch \in clients[x].subscriptions

\* C25: a broadcast on channel ch goes to connection x if and only if x is
\* connected with an open transport, authenticated and subscribed to ch; x is
\* in the member set of ch iff ch is in the subscription set of x; every
\* member of every channel set is a connected, authenticated connection.
C25_BroadcastMembership ==
  [][/\ BroadcastMetricsUpdate =>
         \A x \in ClientIds, ch \in Channels :
           <<x, BroadcastType(ch)>> \in sent' <=> BroadcastDue(x, ch)
     /\ \A ch \in Channels, x \in ClientIds :
          (ch \in DOMAIN rooms' /\ x \in rooms'[ch]) <=>
            x \in Subscribers(clients', ch)
     /\ \A r \in DOMAIN rooms' : \A x \in rooms'[r] :
          x \in DOMAIN clients' /\ clients'[x].authenticated]_vars

\* C25 witness: a broadcast has reached one subscriber while a second
\* subscriber of the same channel has a closed transport and an
\* authenticated connection without the subscription got nothing.
C25_Witness ==
  \E x \in DOMAIN clients, y \in DOMAIN clients :
    /\ x # y
    /\ sent = {<<x, "alerts_update">>}
    /\ clients[x].subscriptions = {"alerts"}
    /\ "alerts" \in clients[y].subscriptions
    /\ clients[y].ready = "CLOSED"

\* C26: the three registries of the poller agree: an id has a device entry
\* iff it has a session iff it has a poll timer (so that after close() no
\* device is left registered).
C26_RegistriesAgree ==
  \A id \in DeviceIds :
    /\ (id \in DOMAIN devices) <=> (id \in sessions)
    /\ (id \in sessions) <=> (id \in DOMAIN pollingIntervals)

\* C28: an add-device or update-device request that returns an error leaves
\* the device's metadata row, its poll session and its poll timer exactly as
\* they were before the request.
C28_AllOrNothing ==
  [][(response'.route \in {"POST", "PUT"} /\ response'.status \in ErrorStatuses) =>
       UNCHANGED <<deviceRows, sessions, pollingIntervals, timers>>]_vars

\* C27: every record emitted by a poll cycle of a device registered through
\* the device routes is eventually written to the time-series store while
\* the store is reachable.
C27_EndToEnd ==
  \A n \in 1..MaxRecs :
    (\E r \in Range(metricsBuffer) : r.id = n /\ r.deviceId \in DOMAIN deviceRows)
      ~> (n \in Ids(store))

C30_NewestSocketCurrent ==
  (newestSocket \in DOMAIN sockets /\ sockets[newestSocket] = "OPEN") =>
    (wsRef = newestSocket /\ isConnected)

====
